---- MODULE Spec2Model ----
(***************************************************************************)
(* Model of arena_hero_chooser.py: the Team class (shared hero catalog,    *)
(* session configuration, per-team draft state) and the top-level flow.    *)
(*                                                                         *)
(* Python strings read from the hero file are sequences of tokens (Str);   *)
(* the tokens Sep and NL stand for ", " and "\n".  The ordered dict        *)
(* cls._possible_heroes is a sequence of [key, val] entries in insertion   *)
(* order, wrapped so that None is representable.                           *)
(***************************************************************************)
EXTENDS Integers, Sequences, FiniteSets, TLC

VARIABLES files, hero_file_path, possible_heroes, team_size,
          allow_special_class, teams, result, pc, round, team_names

vars == <<files, hero_file_path, possible_heroes, team_size,
          allow_special_class, teams, result, pc, round, team_names>>

\* the locals of the top-level script: position, loop index, the two names
scriptVars == <<pc, round, team_names>>

classVars == <<hero_file_path, possible_heroes, team_size, allow_special_class>>

----------------------------------------------------------------------------
(* Bounds and program constants *)

DieSides == 20

DefaultTeamSize == 3

MaxSizeArg == 5

Sep == ", "

NL == "\n"

Special == <<"Special">>

NoPath == "<None>"

HeroPath == "./res/heroes.txt"

MissingPath == "./res/missing.txt"

Paths == {HeroPath, MissingPath}

TeamIds == {1, 2}

Names == {"Ann", "Bob"}

SizeArgs == 2..MaxSizeArg

Line(hero, class) == <<hero, Sep, class, NL>>

FileBasic == << Line("A", "Warrior"), Line("B", "Warrior"), Line("C", "Mage") >>

FileSpecial == << Line("A", "Warrior"), Line("B", "Warrior"), Line("C", "Mage"),
                  Line("Grognak", "Special") >>

FileLarge == << Line("A", "Warrior"), Line("B", "Warrior"), Line("C", "Mage"),
                Line("E", "Rogue"), Line("Grognak", "Special") >>

FileFull == << Line("A", "Warrior"), Line("B", "Warrior"), Line("C", "Mage"),
               Line("D", "Mage"), Line("E", "Rogue"), Line("F", "Rogue") >>

FileTiny == << Line("A", "Warrior"), Line("Grognak", "Special") >>

MaxLines == 3

HeroTokens == {"A", "B", "C", "Grognak"}

ClassTokens == {"Warrior", "Mage", "Special"}

\* the files of at most MaxLines lines "<hero>, <class>" with distinct hero
\* names; the last line may lack its newline
WellFormedFiles ==
    LET Pairs == HeroTokens \X ClassTokens
        Seqs  == UNION {[1..n -> Pairs] : n \in 0..MaxLines}
        Dist  == {ps \in Seqs : \A k, j \in DOMAIN ps : k # j => ps[k][1] # ps[j][1]}
    IN  {[k \in DOMAIN ps |->
            IF k = Len(ps) /\ ~nl THEN <<ps[k][1], Sep, ps[k][2]>>
            ELSE Line(ps[k][1], ps[k][2])] : ps \in Dist, nl \in BOOLEAN}

HeroFiles == {FileBasic, FileSpecial}

----------------------------------------------------------------------------
(* Sequence and dict helpers *)

Range(s) == {s[k] : k \in DOMAIN s}

IndexOf(s, x) == CHOOSE k \in DOMAIN s : s[k] = x /\ \A j \in 1..(k-1) : s[j] # x

\* mutant of ListRemove: drops the last element, like list.pop()
ListRemoveLast(s, x) == SubSeq(s, 1, Len(s) - 1)

\* list.remove(x): drops the first occurrence of x
ListRemove(s, x) ==
    LET k == IndexOf(s, x)
    IN  SubSeq(s, 1, k-1) \o SubSeq(s, k+1, Len(s))

None == [none |-> TRUE, items |-> <<>>]

Some(d) == [none |-> FALSE, items |-> d]

HasKey(d, k) == \E n \in DOMAIN d : d[n].key = k

Get(d, k) == d[CHOOSE n \in DOMAIN d : d[n].key = k].val

Keys(d) == [n \in DOMAIN d |-> d[n].key]

DictDel(d, k) == SelectSeq(d, LAMBDA e : e.key # k)

\* mutant of DictSet: a new key goes to the front of the dict
DictSetFront(d, k, v) ==
    IF HasKey(d, k)
    THEN [n \in DOMAIN d |-> IF d[n].key = k THEN [key |-> k, val |-> v] ELSE d[n]]
    ELSE << [key |-> k, val |-> v] >> \o d

DictSet(d, k, v) ==
    IF HasKey(d, k)
    THEN [n \in DOMAIN d |-> IF d[n].key = k THEN [key |-> k, val |-> v] ELSE d[n]]
    ELSE Append(d, [key |-> k, val |-> v])

----------------------------------------------------------------------------
(* String operations used by load_heroes *)

RECURSIVE Split(_)
\* str.split(", "): the parts between the Sep tokens
Split(s) ==
    IF \A k \in DOMAIN s : s[k] # Sep
    THEN << s >>
    ELSE LET k == IndexOf(s, Sep)
         IN  << SubSeq(s, 1, k-1) >> \o Split(SubSeq(s, k+1, Len(s)))

RECURSIVE StripNL(_)
\* str.strip('\n'): drops leading and trailing NL tokens
StripNL(s) ==
    IF s = <<>> THEN s
    ELSE IF Head(s) = NL THEN StripNL(Tail(s))
    ELSE IF s[Len(s)] = NL THEN StripNL(SubSeq(s, 1, Len(s)-1))
    ELSE s

isfile(p) == p \in DOMAIN files

RECURSIVE ReadLines(_, _)
\* the for-loop of load_heroes over the lines of the file
ReadLines(lines, all_heroes) ==
    IF lines = <<>>
    THEN [exc |-> "ok", dict |-> all_heroes]
    ELSE LET heroes == Split(Head(lines))
         IN  IF Len(heroes) < 2
             THEN [exc |-> "IndexError", dict |-> <<>>]
             ELSE LET hero_name  == heroes[1]
                      hero_class == StripNL(heroes[2])
                      lst == IF HasKey(all_heroes, hero_class)
                             THEN Append(Get(all_heroes, hero_class), hero_name)
                             ELSE << hero_name >>
                  IN  ReadLines(Tail(lines), DictSet(all_heroes, hero_class, lst))

\* mutant of LoadOutcome: the check that a path was set is missing
LoadOutcomeNoPathCheck ==
    IF ~isfile(hero_file_path)
    THEN [exc |-> "FileNotFoundError", dict |-> <<>>]
    ELSE ReadLines(files[hero_file_path], <<>>)

\* outcome of load_heroes in the current state: the exception raised, or
\* "ok" and the dict it assigns to cls._possible_heroes
LoadOutcome ==
    IF hero_file_path = NoPath
    THEN [exc |-> "PathNotSetError", dict |-> <<>>]
    ELSE IF ~isfile(hero_file_path)
    THEN [exc |-> "FileNotFoundError", dict |-> <<>>]
    ELSE ReadLines(files[hero_file_path], <<>>)

----------------------------------------------------------------------------
(* Team class: class methods *)

NoTeam == [live |-> FALSE, name |-> "", roll |-> 0,
           possible_classes |-> <<>>, heroes |-> <<>>]

\* mutant of set_hero_file: the path is stored before the existence check
set_hero_file_overwrite(path_to_file) ==
    /\ hero_file_path' = path_to_file
    /\ result' = IF ~isfile(path_to_file) THEN "FileNotFoundError" ELSE "ok"
    /\ UNCHANGED <<files, possible_heroes, team_size, allow_special_class, teams>>

set_hero_file(path_to_file) ==
    /\ IF ~isfile(path_to_file)
       THEN /\ result' = "FileNotFoundError"
            /\ UNCHANGED hero_file_path
       ELSE /\ hero_file_path' = path_to_file
            /\ result' = "ok"
    /\ UNCHANGED <<files, possible_heroes, team_size, allow_special_class, teams>>

load_heroes ==
    /\ result' = LoadOutcome.exc
    /\ possible_heroes' = IF LoadOutcome.exc = "ok"
                          THEN Some(LoadOutcome.dict)
                          ELSE possible_heroes
    /\ UNCHANGED <<files, hero_file_path, team_size, allow_special_class, teams>>

disallow_special ==
    /\ allow_special_class' = FALSE
    /\ possible_heroes' =
          IF /\ ~possible_heroes.none
             /\ possible_heroes.items # <<>>
             /\ HasKey(possible_heroes.items, Special)
          THEN Some(DictDel(possible_heroes.items, Special))
          ELSE possible_heroes
    /\ result' = "ok"
    /\ UNCHANGED <<files, hero_file_path, team_size, teams>>

set_team_size(size) ==
    /\ IF team_size = 3 \/ team_size = 4
       THEN /\ team_size' = size
            /\ result' = "ok"
       ELSE /\ result' = "ValueError"
            /\ UNCHANGED team_size
    /\ UNCHANGED <<files, hero_file_path, possible_heroes, allow_special_class, teams>>

----------------------------------------------------------------------------
(* Team instances *)

\* Team.__init__ on the slot t; r is the value of random.randint(1, 20)
TeamInit(t, team_name, r) ==
    LET lo == IF possible_heroes.none THEN LoadOutcome
              ELSE [exc |-> "ok", dict |-> possible_heroes.items]
    IN  IF lo.exc # "ok"
        THEN /\ result' = lo.exc
             /\ UNCHANGED <<possible_heroes, teams>>
        ELSE LET d == IF ~allow_special_class /\ HasKey(lo.dict, Special)
                      THEN DictDel(lo.dict, Special)
                      ELSE lo.dict
             IN  /\ possible_heroes' = Some(d)
                 /\ teams' = [teams EXCEPT ![t] =
                                [live |-> TRUE, name |-> team_name, roll |-> r,
                                 possible_classes |-> Keys(d), heroes |-> <<>>]]
                 /\ result' = "ok"

NewTeam(t, team_name, r) ==
    /\ ~teams[t].live
    /\ TeamInit(t, team_name, r)
    /\ UNCHANGED <<files, hero_file_path, team_size, allow_special_class>>

\* mutant of reroll: the roll is stored as if it were shared by all teams
reroll_shared(t, r) ==
    /\ teams[t].live
    /\ teams' = [u \in TeamIds |-> IF teams[u].live THEN [teams[u] EXCEPT !.roll = r]
                                   ELSE teams[u]]
    /\ result' = "ok"
    /\ UNCHANGED <<files, hero_file_path, possible_heroes, team_size, allow_special_class>>

reroll(t, r) ==
    /\ teams[t].live
    /\ teams' = [teams EXCEPT ![t].roll = r]
    /\ result' = "ok"
    /\ UNCHANGED <<files, hero_file_path, possible_heroes, team_size, allow_special_class>>

\* the comprehension at the head of choose_hero; defined when every class of
\* the team is a key of the catalog
KeysToChooseFrom(t) ==
    LET d  == possible_heroes.items
        pc_ == teams[t].possible_classes
        RECURSIVE Rep(_)
        Rep(k) == IF k > Len(pc_) THEN <<>>
                  ELSE [n \in 1..Len(Get(d, pc_[k])) |-> pc_[k]] \o Rep(k+1)
    IN  Rep(1)

\* the exception choose_hero raises before it changes anything, or "ok"
ChooseOutcome(t) ==
    IF \E c \in Range(teams[t].possible_classes) : ~HasKey(possible_heroes.items, c)
    THEN "KeyError"
    ELSE IF KeysToChooseFrom(t) = <<>> THEN "IndexError"
    ELSE "ok"

\* mutant of Pick: the hero stays in the shared catalog
PickKeepHero(t, key, hero) ==
    /\ teams' = [teams EXCEPT
                    ![t].heroes = Append(@, hero),
                    ![t].possible_classes = ListRemove(@, key)]
    /\ UNCHANGED possible_heroes

\* mutant of Pick: the class stays eligible for the team
PickKeepClass(t, key, hero) ==
    /\ teams' = [teams EXCEPT ![t].heroes = Append(@, hero)]
    /\ possible_heroes' = Some(DictSet(possible_heroes.items, key,
                                       ListRemove(Get(possible_heroes.items, key), hero)))

\* mutant of Pick: the whole hero list of the class is emptied
PickClearsClass(t, key, hero) ==
    /\ teams' = [teams EXCEPT
                    ![t].heroes = Append(@, hero),
                    ![t].possible_classes = ListRemove(@, key)]
    /\ possible_heroes' = Some(DictSet(possible_heroes.items, key, <<>>))

\* the state change of a choose_hero call that picks hero from class key
Pick(t, key, hero) ==
    /\ teams' = [teams EXCEPT
                    ![t].heroes = Append(@, hero),
                    ![t].possible_classes = ListRemove(@, key)]
    /\ possible_heroes' = Some(DictSet(possible_heroes.items, key,
                                       ListRemove(Get(possible_heroes.items, key), hero)))

\* mutant of choose_hero: a call that finds no candidate returns silently
choose_hero_silent(t) ==
    /\ teams[t].live
    /\ result' = IF ChooseOutcome(t) = "IndexError" THEN "ok" ELSE ChooseOutcome(t)
    /\ IF ChooseOutcome(t) # "ok"
       THEN UNCHANGED <<possible_heroes, teams>>
       ELSE \E key \in Range(KeysToChooseFrom(t)) :
              \E hero \in Range(Get(possible_heroes.items, key)) :
                 Pick(t, key, hero)
    /\ UNCHANGED <<files, hero_file_path, team_size, allow_special_class>>

choose_hero(t) ==
    /\ teams[t].live
    /\ result' = ChooseOutcome(t)
    /\ IF ChooseOutcome(t) # "ok"
       THEN UNCHANGED <<possible_heroes, teams>>
       ELSE \E key \in Range(KeysToChooseFrom(t)) :
              \E hero \in Range(Get(possible_heroes.items, key)) :
                 Pick(t, key, hero)
    /\ UNCHANGED <<files, hero_file_path, team_size, allow_special_class>>

Team_lt(a, b) == teams[a].roll < teams[b].roll

Team_gt(a, b) == teams[a].roll > teams[b].roll

\* mutant of Team_eq: equality of all the fields
Team_eq_fields(a, b) == teams[a] = teams[b]

Team_eq(a, b) == teams[a].roll = teams[b].roll

\* mutant of Max: the first argument, whatever the rolls
MaxFirst(a, b) == a

\* the builtins max(a, b) and min(a, b) on Team objects
Max(a, b) == IF Team_gt(b, a) THEN b ELSE a

Min(a, b) == IF Team_lt(b, a) THEN b ELSE a

----------------------------------------------------------------------------
(* Initial states: the class attributes as the class statement leaves them *)

InitClass ==
    /\ hero_file_path = NoPath
    /\ possible_heroes = None
    /\ team_size = DefaultTeamSize
    /\ allow_special_class = TRUE
    /\ teams = [t \in TeamIds |-> NoTeam]
    /\ result = "ok"
    /\ round = 0
    /\ team_names = <<"", "">>

FileAt(f) == [p \in {HeroPath} |-> f]

NoFiles == [p \in {} |-> <<>>]

----------------------------------------------------------------------------
(* The top-level script (if __name__ == '__main__') *)

SizeInputs == {"3", "4", "5"}

int(str) == CASE str = "3" -> 3 [] str = "4" -> 4 [] str = "5" -> 5

SpecialInputs == {"y", "n", "maybe"}

Abort(next) == pc' = IF result' = "ok" THEN next ELSE "aborted"

MainSetHeroFile ==
    /\ pc = "set_hero_file"
    /\ set_hero_file(HeroPath)
    /\ Abort("ask_size")
    /\ UNCHANGED <<round, team_names>>

MainAskSize ==
    /\ pc = "ask_size"
    /\ \E num_heroes \in SizeInputs :
          IF num_heroes = "3" \/ num_heroes = "4"
          THEN /\ set_team_size(int(num_heroes))
               /\ Abort("ask_special")
          ELSE UNCHANGED <<files, classVars, teams, result, pc>>
    /\ UNCHANGED <<round, team_names>>

MainAskSpecial ==
    /\ pc = "ask_special"
    /\ \E use_special \in SpecialInputs :
          CASE use_special = "y" ->
                 /\ pc' = "ask_names"
                 /\ UNCHANGED <<files, classVars, teams, result>>
            [] use_special = "n" ->
                 /\ disallow_special
                 /\ pc' = "ask_names"
            [] OTHER -> UNCHANGED <<files, classVars, teams, result, pc>>
    /\ UNCHANGED <<round, team_names>>

MainAskNames ==
    /\ pc = "ask_names"
    /\ \E n1 \in Names, n2 \in Names :
          /\ team_names' = <<n1, n2>>
          /\ pc' = IF n1 = n2 THEN "ask_names" ELSE "team_1"
    /\ UNCHANGED <<files, classVars, teams, result, round>>

MainTeam1 ==
    /\ pc = "team_1"
    /\ \E r \in 1..DieSides : NewTeam(1, team_names[1], r)
    /\ Abort("team_2")
    /\ UNCHANGED <<round, team_names>>

MainTeam2 ==
    /\ pc = "team_2"
    /\ \E r \in 1..DieSides : NewTeam(2, team_names[2], r)
    /\ Abort("tie")
    /\ UNCHANGED <<round, team_names>>

\* mutant of MainTie: the loop condition is inverted
MainTieInverted ==
    /\ pc = "tie"
    /\ IF ~Team_eq(1, 2)
       THEN /\ \E r1 \in 1..DieSides, r2 \in 1..DieSides :
                 teams' = [teams EXCEPT ![1].roll = r1, ![2].roll = r2]
            /\ result' = "ok"
            /\ UNCHANGED pc
       ELSE /\ pc' = IF 0 < team_size THEN "pick_max" ELSE "done"
            /\ UNCHANGED <<teams, result>>
    /\ UNCHANGED <<files, classVars, round, team_names>>

\* while team_1 == team_2: reroll both
MainTie ==
    /\ pc = "tie"
    /\ IF Team_eq(1, 2)
       THEN /\ \E r1 \in 1..DieSides, r2 \in 1..DieSides :
                 teams' = [teams EXCEPT ![1].roll = r1, ![2].roll = r2]
            /\ result' = "ok"
            /\ UNCHANGED pc
       ELSE /\ pc' = IF 0 < team_size THEN "pick_max" ELSE "done"
            /\ UNCHANGED <<teams, result>>
    /\ UNCHANGED <<files, classVars, round, team_names>>

MainPickMax ==
    /\ pc = "pick_max"
    /\ choose_hero(Max(1, 2))
    /\ Abort("pick_min")
    /\ UNCHANGED <<round, team_names>>

\* mutant of MainPickMin: the second pick of a round goes to max() again
MainPickMinAsMax ==
    /\ pc = "pick_min"
    /\ choose_hero(Max(1, 2))
    /\ round' = round + 1
    /\ Abort(IF round + 1 < team_size THEN "pick_max" ELSE "done")
    /\ UNCHANGED team_names

MainPickMin ==
    /\ pc = "pick_min"
    /\ choose_hero(Min(1, 2))
    /\ round' = round + 1
    /\ Abort(IF round + 1 < team_size THEN "pick_max" ELSE "done")
    /\ UNCHANGED team_names

Init ==
    /\ InitClass
    /\ \/ \E f \in {FileBasic, FileLarge} : files = FileAt(f)
       \/ files = NoFiles
    /\ pc = "set_hero_file"

Next ==
    \/ MainSetHeroFile
    \/ MainAskSize
    \/ MainAskSpecial
    \/ MainAskNames
    \/ MainTeam1
    \/ MainTeam2
    \/ MainTie
    \/ MainPickMax
    \/ MainPickMin

Spec == Init /\ [][Next]_vars

\* the script run on a hero file of three classes with two heroes each
InitFull ==
    /\ InitClass
    /\ files = FileAt(FileFull)
    /\ pc = "set_hero_file"

SpecFull == InitFull /\ [][Next]_vars

\* the script with fair dice: the tie loop is not starved, and rerolling
\* does not produce equal rolls for ever
InitTie ==
    /\ InitClass
    /\ files = FileAt(FileBasic)
    /\ pc = "set_hero_file"

DistinctRollsNext == MainTie /\ teams'[1].roll # teams'[2].roll

SpecTie == InitTie /\ [][Next]_vars /\ WF_vars(DistinctRollsNext)

----------------------------------------------------------------------------
(* The Team class driven by an arbitrary caller *)

CallSetHeroFile == \E p \in Paths : set_hero_file(p) /\ UNCHANGED scriptVars

CallLoadHeroes == load_heroes /\ UNCHANGED scriptVars

CallDisallowSpecial == disallow_special /\ UNCHANGED scriptVars

CallSetTeamSize == \E n \in SizeArgs : set_team_size(n) /\ UNCHANGED scriptVars

CallNewTeam ==
    \E t \in TeamIds, n \in Names, r \in 1..DieSides :
        NewTeam(t, n, r) /\ UNCHANGED scriptVars

\* a caller that names the two teams differently, as the script does
SlotName(t) == IF t = 1 THEN "Ann" ELSE "Bob"

CallNewNamedTeam ==
    \E t \in TeamIds, r \in 1..DieSides :
        NewTeam(t, SlotName(t), r) /\ UNCHANGED scriptVars

CallReroll == \E t \in TeamIds, r \in 1..DieSides : reroll(t, r) /\ UNCHANGED scriptVars

CallChooseHero == \E t \in TeamIds : choose_hero(t) /\ UNCHANGED scriptVars

\* class methods only
InitClassApi ==
    /\ InitClass
    /\ \E f \in HeroFiles : files = FileAt(f)
    /\ pc = "api"

NextClassApi ==
    \/ CallSetHeroFile
    \/ CallLoadHeroes
    \/ CallDisallowSpecial
    \/ CallSetTeamSize

SpecClassApi == InitClassApi /\ [][NextClassApi]_vars

\* two teams drafting from the catalog the first construction loads
InitDraft ==
    /\ InitClass
    /\ files = FileAt(FileSpecial)
    /\ pc = "api"

NextDraft ==
    \/ CallSetHeroFile
    \/ CallDisallowSpecial
    \/ CallNewNamedTeam
    \/ CallChooseHero

SpecDraft == InitDraft /\ [][NextDraft]_vars

\* as SpecDraft, with load_heroes callable at any time
InitReload ==
    /\ InitClass
    /\ files = FileAt(FileTiny)
    /\ pc = "api"

NextReload ==
    \/ CallSetHeroFile
    \/ CallLoadHeroes
    \/ CallDisallowSpecial
    \/ CallNewNamedTeam
    \/ CallChooseHero

SpecReload == InitReload /\ [][NextReload]_vars

\* rolls: construction, reroll and drafting
InitRoll ==
    /\ InitClass
    /\ files = FileAt(FileBasic)
    /\ pc = "api"

NextRoll ==
    \/ CallSetHeroFile
    \/ CallNewTeam
    \/ CallReroll
    \/ CallChooseHero

SpecRoll == InitRoll /\ [][NextRoll]_vars

\* the environment deletes a file
RemoveFile(p) ==
    /\ isfile(p)
    /\ files' = [q \in DOMAIN files \ {p} |-> files[q]]
    /\ UNCHANGED <<classVars, teams, result>>

CallRemoveFile == \E p \in Paths : RemoveFile(p) /\ UNCHANGED scriptVars

\* loading, explicit and by construction, while the hero file may disappear
InitLoad ==
    /\ InitClass
    /\ files = FileAt(FileSpecial)
    /\ pc = "api"

NextLoad ==
    \/ CallSetHeroFile
    \/ CallLoadHeroes
    \/ CallRemoveFile
    \/ CallNewNamedTeam

SpecLoad == InitLoad /\ [][NextLoad]_vars

\* loading the well-formed hero files
InitParse ==
    /\ InitClass
    /\ \E f \in WellFormedFiles : files = FileAt(f)
    /\ pc = "api"

NextParse ==
    \/ CallSetHeroFile
    \/ CallLoadHeroes

SpecParse == InitParse /\ [][NextParse]_vars

----------------------------------------------------------------------------
(* Properties *)

NoDup(s) == \A k, j \in DOMAIN s : k # j => s[k] # s[j]

\* the catalogs the hero files describe
ParsedBasic == ReadLines(FileBasic, <<>>).dict

ParsedSpecial == ReadLines(FileSpecial, <<>>).dict

ParsedLarge == ReadLines(FileLarge, <<>>).dict

ParsedTiny == ReadLines(FileTiny, <<>>).dict

ParsedFull == ReadLines(FileFull, <<>>).dict

\* the catalog the hero file of the state describes
FileCatalog ==
    LET f == files[HeroPath]
    IN  CASE f = FileBasic -> ParsedBasic
          [] f = FileSpecial -> ParsedSpecial
          [] f = FileLarge -> ParsedLarge
          [] f = FileTiny -> ParsedTiny
          [] f = FileFull -> ParsedFull

\* the class a hero is listed under in the catalog fc
ClassOf(fc, hero) ==
    fc[CHOOSE n \in DOMAIN fc : hero \in Range(fc[n].val)].key

RECURSIVE HeroClasses(_, _)
HeroClasses(fc, hs) ==
    IF hs = <<>> THEN <<>>
    ELSE << ClassOf(fc, Head(hs)) >> \o HeroClasses(fc, Tail(hs))

AllChosen == teams[1].heroes \o teams[2].heroes

BothLive == teams[1].live /\ teams[2].live

\* C1: no hero is on the two teams' chosen-hero lists twice, neither within
\* one team nor across the teams, after any sequence of choose_hero calls.
NoHeroDraftedTwice == NoDup(AllChosen)

\* C1 witness: both teams have drafted twice from the shared catalog
BothDraftedTwice == Len(teams[1].heroes) >= 2 /\ Len(teams[2].heroes) >= 2

\* C2: a team starts with no hero, and every successful choose_hero call adds
\* exactly one hero and removes exactly one eligible class; the classes of the
\* chosen heroes are pairwise distinct and none of them is eligible any more.
DraftCounts ==
    [][\A t \in TeamIds :
         /\ (~teams[t].live /\ teams'[t].live) => teams'[t].heroes = <<>>
         /\ (teams[t].live /\ teams'[t].heroes # teams[t].heroes) =>
               LET classes == HeroClasses(FileCatalog, teams'[t].heroes)
               IN  /\ Len(teams'[t].heroes) = Len(teams[t].heroes) + 1
                   /\ Len(teams'[t].possible_classes) = Len(teams[t].possible_classes) - 1
                   /\ Range(teams'[t].possible_classes) \subseteq Range(teams[t].possible_classes)
                   /\ NoDup(classes)
                   /\ Range(classes) \cap Range(teams'[t].possible_classes) = {}]_vars

\* C2 witness: a team has drafted three times and has no eligible class left
DraftedThree ==
    \E t \in TeamIds : Len(teams[t].heroes) = 3 /\ teams[t].possible_classes = <<>>

\* C3: in the script, a team never holds more heroes than the team size.
TeamSizeBound == \A t \in TeamIds : Len(teams[t].heroes) <= team_size

\* C3 witness: a team of the script is full
TeamFull == \E t \in TeamIds : teams[t].live /\ Len(teams[t].heroes) = team_size

\* C4: set_team_size raises exactly when its argument is not 3 or 4, a
\* rejected call leaves the team size unchanged, and the team size is 3 or 4
\* after every call.
SetTeamSizeValidates ==
    [][\A n \in SizeArgs :
         (set_team_size(n) /\ UNCHANGED scriptVars) =>
            /\ (result' = "ValueError") <=> (n \notin {3, 4})
            /\ (result' = "ValueError") => (team_size' = team_size)
            /\ team_size' \in {3, 4}]_vars

SpecialHeroes ==
    IF HasKey(FileCatalog, Special) THEN Range(Get(FileCatalog, Special)) ELSE {}

\* C5: once the special class is excluded, no choose_hero call by any team
\* picks the class "Special" or a hero of it.
NoSpecialPickAfterExclusion ==
    [][~allow_special_class =>
         \A t \in TeamIds :
            Len(teams'[t].heroes) > Len(teams[t].heroes) =>
               /\ teams'[t].heroes[Len(teams'[t].heroes)] \notin SpecialHeroes
               /\ (Special \in Range(teams[t].possible_classes)
                      => Special \in Range(teams'[t].possible_classes))]_vars

CatalogHeroes(d) == UNION {Range(d[n].val) : n \in DOMAIN d}

\* C6: when the special class was excluded before the catalog is loaded, the
\* catalog a load produces has no "Special" key and none of the file's
\* special heroes.
ExcludedBeforeLoad ==
    [][(~allow_special_class /\ possible_heroes.none /\ ~possible_heroes'.none) =>
          /\ ~HasKey(possible_heroes'.items, Special)
          /\ CatalogHeroes(possible_heroes'.items) \cap SpecialHeroes = {}]_vars

\* the scenario of C7, at the end of the script's run
BasicScenarioEnded ==
    /\ files = FileAt(FileBasic)
    /\ team_size = 3
    /\ allow_special_class
    /\ BothLive
    /\ pc \in {"done", "aborted"}

NoClassTwice(t) == NoDup(HeroClasses(FileCatalog, teams[t].heroes))

\* C7 (as stated): in the scenario every run ends with exactly 3 heroes chosen
\* in total and no class repeated within a team.
BasicScenarioThreeHeroes ==
    BasicScenarioEnded =>
       /\ Len(AllChosen) = 3
       /\ NoClassTwice(1) /\ NoClassTwice(2)

\* C7 (amended): in the scenario every run ends in the IndexError of a
\* choose_hero call that finds no eligible hero, with 2 or 3 heroes chosen in
\* total and no class repeated within a team.
BasicScenarioExhausted ==
    BasicScenarioEnded =>
       /\ pc = "aborted" /\ result = "IndexError"
       /\ Len(AllChosen) \in {2, 3}
       /\ NoClassTwice(1) /\ NoClassTwice(2)

\* C7 witness: a run of the scenario that ends with only 2 heroes chosen
BasicScenarioTwoHeroes == BasicScenarioEnded /\ Len(AllChosen) = 2

\* C8: the roll of every team is in 1..20, and a step that changes the roll
\* of an existing team changes nothing else: not the team's other fields, the
\* other team, the catalog or the configuration.
RollRangeAndFrame ==
    [][/\ \A t \in TeamIds : teams'[t].live => teams'[t].roll \in 1..20
       /\ \A t \in TeamIds :
            (teams[t].live /\ teams'[t].roll # teams[t].roll) =>
               /\ teams' = [teams EXCEPT ![t].roll = teams'[t].roll]
               /\ UNCHANGED <<files, classVars, scriptVars>>]_vars

\* C8 witness: both teams exist with different rolls and drafted heroes, so
\* that a reroll has fields of both teams to preserve
RollTeamsDrafted ==
    /\ BothLive
    /\ teams[1].heroes # <<>> /\ teams[2].heroes # <<>>
    /\ teams[1].roll = 20 /\ teams[2].roll = 1

\* C9: the comparisons of two teams are the comparisons of their rolls,
\* whatever their other fields.
CompareByRoll ==
    \A a \in TeamIds, b \in TeamIds :
       (teams[a].live /\ teams[b].live) =>
          /\ Team_lt(a, b) <=> (teams[a].roll < teams[b].roll)
          /\ Team_gt(a, b) <=> (teams[a].roll > teams[b].roll)
          /\ Team_eq(a, b) <=> (teams[a].roll = teams[b].roll)

\* C9 witness: equal rolls, while names, eligible classes and heroes differ
EqualRollsOnly ==
    /\ BothLive
    /\ teams[1].roll = teams[2].roll
    /\ teams[1].name # teams[2].name
    /\ teams[1].heroes # teams[2].heroes
    /\ teams[1].possible_classes # teams[2].possible_classes

\* C10: set_hero_file with a path that is not a file raises FileNotFoundError
\* and leaves the configured path and the catalog as they were.
SetHeroFileMissing ==
    [][\A p \in Paths \ DOMAIN files :
         (set_hero_file(p) /\ UNCHANGED scriptVars) =>
            /\ result' = "FileNotFoundError"
            /\ UNCHANGED <<hero_file_path, possible_heroes>>]_vars

\* C10 witness: the call failed with a path configured and the catalog loaded
MissingAfterConfigured ==
    /\ result = "FileNotFoundError"
    /\ hero_file_path = HeroPath
    /\ ~possible_heroes.none


\* the failure load_heroes must end in, if any, in the current state
LoadFailure ==
    IF hero_file_path = NoPath THEN "PathNotSetError"
    ELSE IF hero_file_path \notin DOMAIN files THEN "FileNotFoundError"
    ELSE "ok"

\* C11: load_heroes raises PathNotSetError when no path is configured and
\* FileNotFoundError when the configured path is no file any more, leaving
\* the catalog as it was; a construction that has to load fails the same way
\* and creates no team.
LoadFailsCleanly ==
    [][LoadFailure # "ok" =>
         /\ (load_heroes /\ UNCHANGED scriptVars) =>
               (result' = LoadFailure /\ UNCHANGED possible_heroes)
         /\ \A t \in TeamIds, r \in 1..DieSides :
               (possible_heroes.none /\ NewTeam(t, SlotName(t), r)
                                     /\ UNCHANGED scriptVars) =>
                  (result' = LoadFailure /\ UNCHANGED <<possible_heroes, teams>>)]_vars

\* C11 witness: a load was refused for want of a path
PathNotSetRaised == result = "PathNotSetError" /\ possible_heroes.none


\* C12: the catalog is loaded once; no later call loads it again, so a hero
\* a draft removed from the catalog is never back in it.
DraftedHeroNeverBack ==
    [][~possible_heroes.none =>
         \A h \in Range(AllChosen) :
            h \notin CatalogHeroes(possible_heroes.items)
               => h \notin CatalogHeroes(possible_heroes'.items)]_vars


\* the hero and the class written on line k of the hero file
LineHero(k) == << files[HeroPath][k][1] >>

LineClass(k) == << files[HeroPath][k][3] >>

FirstLineOf(class) ==
    CHOOSE k \in DOMAIN files[HeroPath] :
       LineClass(k) = class /\ \A j \in 1..(k-1) : LineClass(j) # class

LineOfHero(hero) == CHOOSE k \in DOMAIN files[HeroPath] : LineHero(k) = hero

\* C13: the catalog loaded from a well-formed file lists every hero under the
\* class of its line and under no other, has the classes as keys in order of
\* first occurrence, and has each class's heroes in file order.
LoadedCatalogMatchesFile ==
    (~possible_heroes.none /\ HeroPath \in DOMAIN files) =>
       LET d == possible_heroes.items
           f == files[HeroPath]
       IN  /\ \A k \in DOMAIN f :
                 /\ HasKey(d, LineClass(k))
                 /\ \A n \in DOMAIN d :
                       (LineHero(k) \in Range(d[n].val)) <=> (d[n].key = LineClass(k))
           /\ NoDup(Keys(d))
           /\ Range(Keys(d)) = {LineClass(k) : k \in DOMAIN f}
           /\ \A i, j \in DOMAIN d :
                 i < j => FirstLineOf(d[i].key) < FirstLineOf(d[j].key)
           /\ \A n \in DOMAIN d :
                 /\ NoDup(d[n].val)
                 /\ Range(d[n].val) = {LineHero(k) : k \in {j \in DOMAIN f : LineClass(j) = d[n].key}}
                 /\ \A i, j \in DOMAIN d[n].val :
                       i < j => LineOfHero(d[n].val[i]) < LineOfHero(d[n].val[j])

\* C13 witness: a loaded file of three lines and two classes whose last line
\* has no newline and adds a hero to the first class
LoadedInterleavedFile ==
    /\ ~possible_heroes.none
    /\ Len(files[HeroPath]) = 3
    /\ Len(files[HeroPath][3]) = 3
    /\ LineClass(1) = LineClass(3) /\ LineClass(1) # LineClass(2)
    /\ Len(possible_heroes.items) = 2
    /\ Len(possible_heroes.items[1].val) = 2


\* the teams with the higher and the lower roll
Higher == CHOOSE t \in TeamIds : \A u \in TeamIds : teams[t].roll >= teams[u].roll

Lower == CHOOSE t \in TeamIds : t # Higher

Drafting == pc \in {"pick_max", "pick_min", "done"}

\* C14: the script drafts in team_size rounds; in every round the team with
\* the higher roll drafts one hero and then the team with the lower roll
\* drafts one hero.
DraftOrderByRoll ==
    Drafting =>
       /\ teams[1].roll # teams[2].roll
       /\ pc = "pick_max" =>
             /\ round < team_size
             /\ Len(teams[Higher].heroes) = round
             /\ Len(teams[Lower].heroes) = round
       /\ pc = "pick_min" =>
             /\ round < team_size
             /\ Len(teams[Higher].heroes) = round + 1
             /\ Len(teams[Lower].heroes) = round
       /\ pc = "done" =>
             /\ round = team_size
             /\ Len(teams[Higher].heroes) = team_size
             /\ Len(teams[Lower].heroes) = team_size

\* C14 witness: all rounds were played with the second team drafting first
AllRoundsSecondTeamFirst == pc = "done" /\ teams[2].roll > teams[1].roll

\* the hero file has at least team_size classes of at least two heroes
AmpleCatalog ==
    /\ HeroPath \in DOMAIN files
    /\ Len(FileCatalog) >= team_size
    /\ \A n \in DOMAIN FileCatalog : Len(FileCatalog[n].val) >= 2

\* C19: when both teams captured a catalog of at least team_size classes with
\* at least two heroes each, no choose_hero call of the script fails, and the
\* script ends with team_size heroes on each team.
AmpleCatalogNeverExhausted ==
    (BothLive /\ AmpleCatalog) =>
       /\ pc # "aborted"
       /\ result = "ok"
       /\ pc = "done" => \A t \in TeamIds : Len(teams[t].heroes) = team_size

\* C19 witness: the script ended with two full teams of three
TwoFullTeams ==
    /\ pc = "done"
    /\ AmpleCatalog
    /\ Len(teams[1].heroes) = 3 /\ Len(teams[2].heroes) = 3


\* C15: while the rolls are equal the script only rerolls both teams and
\* drafts nothing; drafting begins with distinct rolls only; and with fair
\* dice the tie loop ends and drafting begins.
TieLoopEnds ==
    /\ [][(pc = "tie" /\ Team_eq(1, 2)) =>
            /\ pc' = "tie"
            /\ teams'[1].heroes = <<>> /\ teams'[2].heroes = <<>>
            /\ UNCHANGED <<files, classVars, round, team_names>>]_vars
    /\ [](Drafting => ~Team_eq(1, 2))
    /\ (pc = "tie") ~> (pc = "pick_max")

\* C15 witness: the two teams are tied in the loop
TiedInLoop == pc = "tie" /\ BothLive /\ Team_eq(1, 2)


\* the heroes in the catalog under a class on the eligible list of team t
EligibleHeroes(t) ==
    LET d == possible_heroes.items
    IN  UNION {Range(Get(d, c)) :
                  c \in {e \in Range(teams[t].possible_classes) : HasKey(d, e)}}

\* a choose_hero call of team t that picks hero h
PicksHero(t, h) ==
    choose_hero(t) /\ teams'[t].heroes = Append(teams[t].heroes, h)

Count(s, x) == Cardinality({k \in DOMAIN s : s[k] = x})

\* C16: the candidate list of choose_hero holds every eligible class once per
\* hero left in it, and the heroes a call can pick are exactly the heroes in
\* the catalog under an eligible class (so never one of an empty class).
CandidatesAreEligibleHeroes ==
    \A t \in TeamIds :
       teams[t].live =>
          /\ ChooseOutcome(t) # "KeyError" =>
                /\ \A c \in Range(teams[t].possible_classes) :
                      Count(KeysToChooseFrom(t), c) = Len(Get(possible_heroes.items, c))
                /\ Range(KeysToChooseFrom(t)) \subseteq Range(teams[t].possible_classes)
          /\ \A h \in CatalogHeroes(FileCatalog) :
                (ENABLED PicksHero(t, h)) <=> (h \in EligibleHeroes(t))

\* C17: the eligible-class list of every team has no duplicates and holds
\* only keys of the current catalog.
EligibleClassesAreKeys ==
    \A t \in TeamIds :
       teams[t].live =>
          /\ NoDup(teams[t].possible_classes)
          /\ \A c \in Range(teams[t].possible_classes) :
                HasKey(possible_heroes.items, c)

\* team t has no eligible class with a hero left
NoEligibleHero(t) ==
    /\ teams[t].live
    /\ \A c \in Range(teams[t].possible_classes) :
          \/ ~HasKey(possible_heroes.items, c)
          \/ Get(possible_heroes.items, c) = <<>>

\* C18: a choose_hero call of a team without any eligible hero fails with an
\* error and changes neither the teams nor the catalog.
ExhaustedDraftFails ==
    [][\A t \in TeamIds :
         (NoEligibleHero(t) /\ choose_hero(t) /\ UNCHANGED scriptVars) =>
            /\ result' \in {"IndexError", "KeyError"}
            /\ UNCHANGED <<teams, possible_heroes>>]_vars

\* C18 witness: a team that drafted all its classes was refused a further hero
ExhaustedAfterDrafting ==
    /\ result = "IndexError"
    /\ \E t \in TeamIds :
          /\ NoEligibleHero(t)
          /\ teams[t].possible_classes = <<>>
          /\ teams[t].heroes # <<>>

\* C20: a successful choose_hero call of team t appends one hero to t's
\* heroes, may only change t's eligible classes besides, and takes exactly
\* that hero from one catalog list; the other team, t's roll and name, the
\* other catalog lists and the configuration are unchanged.
DraftFrame ==
    [][\A t \in TeamIds :
         (teams[t].live /\ Len(teams'[t].heroes) > Len(teams[t].heroes)) =>
            LET h == teams'[t].heroes[Len(teams'[t].heroes)]
                d == possible_heroes.items
                e == possible_heroes'.items
            IN  /\ teams'[t].heroes = Append(teams[t].heroes, h)
                /\ \A u \in TeamIds \ {t} : teams'[u] = teams[u]
                /\ teams'[t].roll = teams[t].roll
                /\ teams'[t].name = teams[t].name
                /\ teams'[t].live
                /\ UNCHANGED <<files, hero_file_path, team_size,
                               allow_special_class, scriptVars>>
                /\ ~possible_heroes'.none
                /\ Keys(e) = Keys(d)
                /\ \E n \in DOMAIN d :
                      /\ d[n].key \in Range(teams[t].possible_classes)
                      /\ h \in Range(d[n].val)
                      /\ e[n].val = SelectSeq(d[n].val, LAMBDA x : x # h)
                      /\ \A m \in DOMAIN d \ {n} : e[m] = d[m]]_vars

\* C20 witness: a team drafted while the other team held two heroes
DraftedBesideOther ==
    /\ result = "ok"
    /\ Len(teams[1].heroes) = 1
    /\ Len(teams[2].heroes) = 2
    /\ teams[1].roll # teams[2].roll

====
